---- MODULE Spec2Model ----
(***************************************************************************)
(* Face-gesture page turning of MusicReader: the detection engine and its  *)
(* session lifecycle (faceControl.js, the adaptive-threshold variant).     *)
(*                                                                         *)
(* Numbers.  The source computes on doubles; the model computes on         *)
(* fixed-point integers:                                                   *)
(*   eye aspect ratios   in units of 1/EarScale  (0.25 is 250000)          *)
(*   yaw angles          in units of 1/YawScale degree (5 deg is 50000)    *)
(*   sensitivity         in units of 1/SensScale (1.0 is 10)               *)
(*   times               in milliseconds                                   *)
(* A quotient is the floor of the exact quotient, the baseline's moving    *)
(* average is rounded to the nearest unit.                                 *)
(***************************************************************************)
EXTENDS Integers, Sequences, FiniteSets, TLC

EarScale == 1000000
YawScale == 10000
SensScale == 10

\* null, for a timestamp that is not set (timestamps are never negative)
Null == -1

\* Date.now() at the moment performance.now() is 0 (page load)
PageLoadEpochMs == 1000000000

(***************************************************************************)
(* BASE_THRESHOLDS                                                         *)
(***************************************************************************)
minEarDrop == 120000
minOpenDrop == 60000
noiseMultClose == 6
noiseMultOpen == 3
diffMin == 40000
diffNoiseMult == 3
blinkMinMs == 60
blinkMaxMs == 350
longBlinkMs == 420
longBlinkMaxMs == 900
doubleBlinkWindowMs == 700
blinkSyncMs == 80
winkMinMs == 60
winkMaxMs == 500
winkCooldownMs == 300
headTurnDeg == 5
headReturnDeg == 3
baselineEmaPct == 1
rearmOpenFrames == 3
targetFps == 30

\* literals of processFrame and calibrateBaseline
earHistoryMax == 7
yawHistoryMax == 5
yawAverageWindow == 3
blinkRetainMs == 3000
blinkRecentMs == 300
minBlinkGapMs == 80
calibrationDuration == 2000
calibrationSleepMs == 50
noiseFloorEar == 5000
noiseFloorYaw == 1000
yawDegrees == 90

(***************************************************************************)
(* Bounds of the model                                                     *)
(***************************************************************************)
\* Spec: frame callbacks delivered, and initFaceControl calls, in one run
MaxTicks == 1
MaxSessions == 2
\* SpecTurn, SpecBlink: frame callbacks delivered in one run (one session)
MaxTurnTicks == 3
MaxBlinkTicks == 4
\* SpecHold: frame callbacks delivered in one run, the first FreeHoldTicks
\* of them with any frame, the others repeating the frame before them
MaxHoldTicks == 10
FreeHoldTicks == 3
\* SpecRate: frame callbacks delivered in one run (one session)
MaxRateTicks == 4
\* SpecLatch: frame callbacks delivered in one run (one session)
MaxLatchTicks == 3
MaxDriftTicks == 30
MaxDegenerateTicks == 3

(***************************************************************************)
(* Numeric helpers                                                         *)
(***************************************************************************)
Max(a, b) == IF a > b THEN a ELSE b

Abs(a) == IF a < 0 THEN -a ELSE a

\* the non-finite results of a JavaScript division by zero, as numbers
\* outside the range of every ratio and angle
Infinity == 2147483647
NaN == -2147483647

\* a + b, a - b and a / n of JavaScript numbers: NaN in, NaN out
Plus(a, b) == IF a = NaN \/ b = NaN THEN NaN ELSE a + b

Minus(a, b) == IF a = NaN \/ b = NaN THEN NaN ELSE a - b

Over(a, n) == IF a = NaN THEN NaN ELSE a \div n

RECURSIVE Sum(_)
Sum(values) == IF Len(values) = 0 THEN 0 ELSE Plus(Head(values), Sum(Tail(values)))

\* values.slice(-n)
LastN(values, n) ==
    IF Len(values) <= n THEN values ELSE SubSeq(values, Len(values) - n + 1, Len(values))

\* utils.js movingAverage
movingAverage(values, windowSize) ==
    IF Len(values) = 0 THEN 0
    ELSE LET window == LastN(values, windowSize) IN Over(Sum(window), Len(window))

mean(values) == IF Len(values) = 0 THEN 0 ELSE Over(Sum(values), Len(values))

\* the k-th smallest element of values
Kth(values, k) ==
    CHOOSE v \in {values[i] : i \in DOMAIN values} :
        /\ Cardinality({i \in DOMAIN values : values[i] < v}) < k
        /\ Cardinality({i \in DOMAIN values : values[i] <= v}) >= k

\* [...values].sort((a, b) => a - b)
Sorted(values) == [k \in 1..Len(values) |-> Kth(values, k)]

median(values) ==
    IF Len(values) = 0 THEN 0
    ELSE LET sorted == Sorted(values)
             mid == Len(sorted) \div 2
         IN IF Len(sorted) % 2 = 0
            THEN (sorted[mid] + sorted[mid + 1]) \div 2
            ELSE sorted[mid + 1]

\* floor of the square root, by bisection on lo..hi
RECURSIVE SqrtIn(_, _, _)
SqrtIn(n, lo, hi) ==
    IF lo >= hi THEN lo
    ELSE LET m == (lo + hi + 1) \div 2
         IN IF m * m <= n THEN SqrtIn(n, m, hi) ELSE SqrtIn(n, lo, m - 1)

Sqrt(n) == SqrtIn(n, 0, 46340)

RECURSIVE SumSq(_, _, _)
SumSq(values, avg, unit) ==
    IF Len(values) = 0 THEN 0
    ELSE ((Head(values) - avg) \div unit) * ((Head(values) - avg) \div unit)
         + SumSq(Tail(values), avg, unit)

\* sample standard deviation; the squares are taken on deviations cut to
\* multiples of unit, which keeps them within 32 bits
stddev(values, unit) ==
    IF Len(values) < 2 THEN 0
    ELSE LET avg == mean(values)
             variance == SumSq(values, avg, unit) \div (Len(values) - 1)
         IN Sqrt(variance) * unit

(***************************************************************************)
(* Landmark geometry.  A frame is what detectForVideo returns: no face, or *)
(* the distances between the landmarks the engine reads.                   *)
(***************************************************************************)
Eye(vA, vB, h) == [verticalA |-> vA, verticalB |-> vB, horizontal |-> h]

Face(le, re, ld, rd) ==
    [face |-> TRUE, leftEye |-> le, rightEye |-> re, leftDist |-> ld, rightDist |-> rd]

NoFace == [face |-> FALSE]

OpenEye == Eye(30, 30, 100)
ShutEye == Eye(0, 0, 100)

FaceOpen == Face(OpenEye, OpenEye, 9, 9)
FaceShut == Face(ShutEye, ShutEye, 9, 9)
FaceRightShut == Face(OpenEye, ShutEye, 9, 9)
FaceTurnRight == Face(OpenEye, OpenEye, 7, 11)
FaceTurnLeft == Face(OpenEye, OpenEye, 11, 7)
\* a yaw of 12 degrees
FaceTurnSlightRight == Face(OpenEye, OpenEye, 13, 17)
\* a degenerate frame: the nose and both cheek landmarks coincide
FaceCollapsed == Face(OpenEye, OpenEye, 0, 0)

\* lines 548-554; x / 0 is Infinity for x > 0 and NaN for x = 0
eyeAspectRatio(eye) ==
    IF 2 * eye.horizontal = 0
    THEN IF eye.verticalA + eye.verticalB > 0 THEN Infinity ELSE NaN
    ELSE ((eye.verticalA + eye.verticalB) * EarScale) \div (2 * eye.horizontal)

calculateSeparateEAR(landmarks) ==
    [left |-> eyeAspectRatio(landmarks.leftEye), right |-> eyeAspectRatio(landmarks.rightEye)]

\* lines 575-587; distances are not negative, so a zero denominator means
\* both are zero and the ratio is 0 / 0
calculateYaw(landmarks) ==
    IF landmarks.rightDist + landmarks.leftDist = 0
    THEN NaN
    ELSE ((landmarks.rightDist - landmarks.leftDist) * yawDegrees * YawScale)
             \div (landmarks.rightDist + landmarks.leftDist)

(***************************************************************************)
(* Module state of faceControl.js                                          *)
(***************************************************************************)
VARIABLES
    faceLandmarker,   \* TRUE when not null
    videoElement,     \* TRUE when not null
    stream,           \* TRUE when not null
    animationId,      \* TRUE when not null
    isRunning,
    isPaused,
    config,
    det,              \* the "Detection state", wink and head-turn variables
    baseline,
    noise,
    \* the pending initFaceControl call, and calibrateBaseline's locals
    initPc,
    initOutcome,
    cal,
    \* the environment: the clock, the browser's frame callback queue
    clock,
    rafQueued,
    \* observation of the session: the last frame callback's result, the
    \* callbacks dispatched, the eye readings and the frames processed so far
    last,
    dispatched,
    observed,
    processed,
    destroyed,
    sessions,
    ticks,
    \* the last helper applied on its own: its name, input and result
    probe

vars == <<faceLandmarker, videoElement, stream, animationId, isRunning, isPaused,
          config, det, baseline, noise, initPc, initOutcome, cal, clock, rafQueued,
          last, dispatched, observed, processed, destroyed, sessions, ticks,
          probe>>

NoProbe == [helper |-> "none"]

DateNow(c) == PageLoadEpochMs + c

InitConfig ==
    [debugElement |-> FALSE, sensitivity |-> 10, cooldownMs |-> 900,
     triggerNext |-> "double_blink", triggerPrev |-> "long_blink"]

InitDet ==
    [lastTriggerTime |-> 0, blinkHistory |-> <<>>, leftEarHistory |-> <<>>,
     rightEarHistory |-> <<>>, yawHistory |-> <<>>, leftClosedSince |-> Null,
     rightClosedSince |-> Null, blinkState |-> Null, openFrames |-> 0,
     rearmReady |-> TRUE, lastFrameTime |-> 0, winkState |-> "none",
     winkStartTime |-> 0, lastWinkTrigger |-> 0, headTurnState |-> "center",
     lastHeadTurnTrigger |-> 0]

InitBaseline == [leftEar |-> 250000, rightEar |-> 250000, yaw |-> 0]

InitNoise == [leftEar |-> 20000, rightEar |-> 20000, diff |-> 20000, yaw |-> 5000]

NoCal == [startTime |-> 0, leftEarSamples |-> <<>>, rightEarSamples |-> <<>>,
          yawSamples |-> <<>>, diffSamples |-> <<>>]

\* `last` before any frame callback has run
NoFrameYet == [outcome |-> "none", calls |-> <<>>, debug |-> <<>>]

(***************************************************************************)
(* processFrame, stage by stage                                            *)
(***************************************************************************)
\* nothing is evicted
PushHistoryUnbounded(history, v, max) == Append(history, v)

\* a full history drops the new value instead of its oldest
PushHistoryNoEvict(history, v, max) ==
    IF Len(history) >= max THEN history ELSE Append(history, v)

\* history.push(v); if (history.length > max) history.shift()
PushHistory(history, v, max) ==
    LET h == Append(history, v) IN IF Len(h) > max THEN Tail(h) ELSE h

\* one drop for the close and the open threshold
DropSameForBoth(minDrop, noiseValue, mult, sensitivity) ==
    (minEarDrop * SensScale) \div sensitivity

\* the drop below baseline that classifies an eye
Drop(minDrop, noiseValue, mult, sensitivity) ==
    (Max(minDrop, noiseValue * mult) * SensScale) \div sensitivity

\* lines 253-269, 282-284: thresholds and per-frame classification
Classify(bl, ns, cfg, smoothLeftEar, smoothRightEar) ==
    LET sensitivity == cfg.sensitivity
        leftCloseThreshold ==
            bl.leftEar - Drop(minEarDrop, ns.leftEar, noiseMultClose, sensitivity)
        rightCloseThreshold ==
            bl.rightEar - Drop(minEarDrop, ns.rightEar, noiseMultClose, sensitivity)
        leftOpenThreshold ==
            bl.leftEar - Drop(minOpenDrop, ns.leftEar, noiseMultOpen, sensitivity)
        rightOpenThreshold ==
            bl.rightEar - Drop(minOpenDrop, ns.rightEar, noiseMultOpen, sensitivity)
        earDifference == Abs(smoothLeftEar - smoothRightEar)
        winkDiffThreshold == Drop(diffMin, ns.diff, diffNoiseMult, sensitivity)
    IN [leftClosed |-> smoothLeftEar < leftCloseThreshold,
        rightClosed |-> smoothRightEar < rightCloseThreshold,
        leftOpen |-> smoothLeftEar > leftOpenThreshold,
        rightOpen |-> smoothRightEar > rightOpenThreshold,
        earDifference |-> earDifference,
        winkDiffThreshold |-> winkDiffThreshold,
        leftCloseThreshold |-> leftCloseThreshold,
        rightCloseThreshold |-> rightCloseThreshold,
        leftOpenThreshold |-> leftOpenThreshold,
        rightOpenThreshold |-> rightOpenThreshold]

\* lines 270-273.  `now` is declared by `const now = Date.now()` on line 286
\* of the same function body: reading it on line 270 or 272 is a read in its
\* temporal dead zone and raises ReferenceError.  The read happens exactly
\* when the eye is classified closed and its closed-since timestamp is null.
ClosedSinceStep(d, c) ==
    LET leftAfter == IF ~c.leftClosed THEN Null ELSE d.leftClosedSince
        rightAfter == IF ~c.rightClosed THEN Null ELSE d.rightClosedSince
    IN IF c.leftClosed /\ d.leftClosedSince = Null
       THEN [threw |-> TRUE, leftClosedSince |-> d.leftClosedSince,
             rightClosedSince |-> d.rightClosedSince]
       ELSE IF c.rightClosed /\ d.rightClosedSince = Null
       THEN [threw |-> TRUE, leftClosedSince |-> leftAfter,
             rightClosedSince |-> d.rightClosedSince]
       ELSE [threw |-> FALSE, leftClosedSince |-> leftAfter,
             rightClosedSince |-> rightAfter]

\* both eyes closed, whenever each of them closed
BothClosedAnyOnset(c, leftClosedSince, rightClosedSince) ==
    /\ c.leftClosed /\ c.rightClosed
    /\ leftClosedSince # Null /\ rightClosedSince # Null

\* lines 275-277
BothClosed(c, leftClosedSince, rightClosedSince) ==
    /\ c.leftClosed /\ c.rightClosed
    /\ leftClosedSince # Null /\ rightClosedSince # Null
    /\ Abs(leftClosedSince - rightClosedSince) <= blinkSyncMs

\* lines 283-284 (the webcam image is mirrored: the labels are swapped)
IsLeftWink(c) == c.rightClosed /\ c.leftOpen /\ c.earDifference > c.winkDiffThreshold

IsRightWink(c) == c.leftClosed /\ c.rightOpen /\ c.earDifference > c.winkDiffThreshold

\* a cooldown that is never applied
CooldownMsIgnored(cfg) == 0

\* lines 287, 420, 432: config.cooldownMs as the engine reads it
CooldownMs(cfg) == cfg.cooldownMs

\* line 287
InCooldown(now, lastTriggerTime, cooldownMs) == now - lastTriggerTime < cooldownMs

\* a wink reported on every frame without a wink reading, whatever was held
WinkStepAnyRelease(d, c, bothClosed, now) ==
    [winkState |-> "none", winkStartTime |-> d.winkStartTime,
     winkTriggered |-> IF ~IsLeftWink(c) /\ ~IsRightWink(c) THEN "wink_left" ELSE "none"]

\* lines 290-315: the wink state machine
WinkStep(d, c, bothClosed, now) ==
    LET winkCooldown == now - d.lastWinkTrigger < winkCooldownMs
        same == [winkState |-> d.winkState, winkStartTime |-> d.winkStartTime,
                 winkTriggered |-> "none"]
    IN IF winkCooldown THEN same
       ELSE IF IsLeftWink(c) /\ d.winkState # "left_winking" /\ ~bothClosed
       THEN [winkState |-> "left_winking", winkStartTime |-> now, winkTriggered |-> "none"]
       ELSE IF IsRightWink(c) /\ d.winkState # "right_winking" /\ ~bothClosed
       THEN [winkState |-> "right_winking", winkStartTime |-> now, winkTriggered |-> "none"]
       ELSE IF ~IsLeftWink(c) /\ ~IsRightWink(c) /\ d.winkState # "none"
       THEN LET winkDuration == now - d.winkStartTime
                inBand == winkDuration >= winkMinMs /\ winkDuration <= winkMaxMs
            IN [winkState |-> "none", winkStartTime |-> d.winkStartTime,
                winkTriggered |->
                    IF inBand /\ d.winkState = "left_winking" THEN "wink_left"
                    ELSE IF inBand /\ d.winkState = "right_winking" THEN "wink_right"
                    ELSE "none"]
       ELSE same

\* an open BlinkEvent is kept whatever the eyes do
BlinkStepNeverEnds(d, bothClosed, now) ==
    [blinkState |-> IF bothClosed /\ d.blinkState = Null THEN now ELSE d.blinkState,
     blinkHistory |-> SelectSeq(d.blinkHistory, LAMBDA b : now - b.start < blinkRetainMs)]

\* lines 317-329: blink tracking and pruning
BlinkStep(d, bothClosed, now) ==
    LET opened == IF bothClosed /\ d.blinkState = Null THEN now ELSE d.blinkState
        ended == ~bothClosed /\ d.blinkState # Null
        history == IF ended
                   THEN Append(d.blinkHistory, [start |-> d.blinkState, end |-> now])
                   ELSE d.blinkHistory
    IN [blinkState |-> IF ended THEN Null ELSE opened,
        blinkHistory |-> SelectSeq(history, LAMBDA b : now - b.start < blinkRetainMs)]

\* a turn past the threshold enters left/right from any state
HeadTurnStepNoLatch(headTurnState, yawDelta, sensitivity) ==
    LET headTurnThreshold == (headTurnDeg * YawScale * SensScale) \div sensitivity
    IN IF Abs(yawDelta) < headReturnDeg * YawScale THEN "center"
       ELSE IF yawDelta > headTurnThreshold THEN "right"
       ELSE IF yawDelta < -headTurnThreshold THEN "left"
       ELSE headTurnState

\* a triggered turn is never taken back to center
HeadTurnStepNoReturn(headTurnState, yawDelta, sensitivity) ==
    LET headTurnThreshold == (headTurnDeg * YawScale * SensScale) \div sensitivity
    IN IF headTurnState \in {"triggered_right", "triggered_left"} THEN headTurnState
       ELSE IF Abs(yawDelta) < headReturnDeg * YawScale THEN "center"
       ELSE IF yawDelta > headTurnThreshold
       THEN (IF headTurnState = "center" THEN "right" ELSE headTurnState)
       ELSE IF yawDelta < -headTurnThreshold
       THEN (IF headTurnState = "center" THEN "left" ELSE headTurnState)
       ELSE headTurnState

\* a turn past the threshold to the other side crosses over without a return
\* to center
HeadTurnStepCrossOver(headTurnState, yawDelta, sensitivity) ==
    LET headTurnThreshold == (headTurnDeg * YawScale * SensScale) \div sensitivity
    IN IF Abs(yawDelta) < headReturnDeg * YawScale THEN "center"
       ELSE IF yawDelta > headTurnThreshold
       THEN (IF headTurnState \in {"center", "left", "triggered_left"}
             THEN "right" ELSE headTurnState)
       ELSE IF yawDelta < -headTurnThreshold
       THEN (IF headTurnState \in {"center", "right", "triggered_right"}
             THEN "left" ELSE headTurnState)
       ELSE headTurnState

\* lines 331-342: the head-turn state machine; every comparison with a NaN
\* yawDelta is false
HeadTurnStep(headTurnState, yawDelta, sensitivity) ==
    LET headTurnThreshold == (headTurnDeg * YawScale * SensScale) \div sensitivity
    IN IF yawDelta = NaN THEN headTurnState
       ELSE IF Abs(yawDelta) < headReturnDeg * YawScale THEN "center"
       ELSE IF yawDelta > headTurnThreshold
       THEN (IF headTurnState = "center" THEN "right" ELSE headTurnState)
       ELSE IF yawDelta < -headTurnThreshold
       THEN (IF headTurnState = "center" THEN "left" ELSE headTurnState)
       ELSE headTurnState

\* no gesture is bound while a debug sink is configured
BoundUnlessDebugging(cfg, gesture) ==
    IF cfg.debugElement THEN "none"
    ELSE IF cfg.triggerNext = gesture THEN "next"
    ELSE IF cfg.triggerPrev = gesture THEN "prev"
    ELSE "none"

\* which of next/prev a gesture is bound to ("none": to neither)
Bound(cfg, gesture) ==
    IF cfg.triggerNext = gesture THEN "next"
    ELSE IF cfg.triggerPrev = gesture THEN "prev"
    ELSE "none"

\* a completed wink is never taken as a trigger
WinkTriggerNever(cfg, winkTriggered, inCooldown) == "none"

\* lines 348-370
WinkTrigger(cfg, winkTriggered, inCooldown) ==
    IF winkTriggered # "none" /\ ~inCooldown THEN Bound(cfg, winkTriggered) ELSE "none"

\* lines 373-396
DoubleBlink(blinkHistory, now) ==
    LET completedBlinks ==
            SelectSeq(blinkHistory,
                      LAMBDA b : b.end - b.start >= blinkMinMs /\ b.end - b.start <= blinkMaxMs)
        n == Len(completedBlinks)
    IN /\ n >= 2
       /\ LET blink1 == completedBlinks[n - 1]
              blink2 == completedBlinks[n]
              timeBetweenBlinks == blink2.start - blink1.end
          IN /\ now - blink2.end < blinkRecentMs
             /\ timeBetweenBlinks < doubleBlinkWindowMs
             /\ timeBetweenBlinks > minBlinkGapMs

\* lines 398-407
LongBlink(blinkHistory, now) ==
    Len(SelectSeq(blinkHistory,
                  LAMBDA b : /\ b.end - b.start >= longBlinkMs
                             /\ b.end - b.start <= longBlinkMaxMs
                             /\ now - b.end < blinkRecentMs)) > 0

\* lines 418-445: the head-turn candidate
HeadTurnCandidate(headTurnState, now, lastHeadTurnTrigger, cooldownMs) ==
    IF headTurnState = "right" /\ now - lastHeadTurnTrigger > cooldownMs THEN "head_right"
    ELSE IF headTurnState = "left" /\ now - lastHeadTurnTrigger > cooldownMs THEN "head_left"
    ELSE "none"

\* lines 344-446: trigger selection.  -> [triggered, triggerReason, calls...]
SelectTrigger(cfg, d, winkTriggered, blinkHistory, headTurnState, inCooldown, now) ==
    LET wink == WinkTrigger(cfg, winkTriggered, inCooldown)
        gate == ~inCooldown /\ wink = "none" /\ d.rearmReady
        double == IF gate /\ DoubleBlink(blinkHistory, now)
                  THEN Bound(cfg, "double_blink") ELSE "none"
        long == IF gate /\ double = "none" /\ LongBlink(blinkHistory, now)
                THEN Bound(cfg, "long_blink") ELSE "none"
        headGesture == IF gate /\ double = "none" /\ long = "none"
                       THEN HeadTurnCandidate(headTurnState, now,
                                              d.lastHeadTurnTrigger, CooldownMs(cfg))
                       ELSE "none"
        head == IF headGesture = "none" THEN "none" ELSE Bound(cfg, headGesture)
    IN IF wink # "none"
       THEN [triggered |-> wink, triggerReason |-> winkTriggered,
             lastWinkTrigger |-> now, lastHeadTurnTrigger |-> d.lastHeadTurnTrigger,
             headTurnState |-> headTurnState]
       ELSE IF double # "none"
       THEN [triggered |-> double, triggerReason |-> "double_blink",
             lastWinkTrigger |-> d.lastWinkTrigger,
             lastHeadTurnTrigger |-> d.lastHeadTurnTrigger,
             headTurnState |-> headTurnState]
       ELSE IF long # "none"
       THEN [triggered |-> long, triggerReason |-> "long_blink",
             lastWinkTrigger |-> d.lastWinkTrigger,
             lastHeadTurnTrigger |-> d.lastHeadTurnTrigger,
             headTurnState |-> headTurnState]
       ELSE IF head # "none"
       THEN [triggered |-> head, triggerReason |-> headGesture,
             lastWinkTrigger |-> d.lastWinkTrigger, lastHeadTurnTrigger |-> now,
             headTurnState |-> IF headGesture = "head_right"
                               THEN "triggered_right" ELSE "triggered_left"]
       ELSE [triggered |-> "none", triggerReason |-> "",
             lastWinkTrigger |-> d.lastWinkTrigger,
             lastHeadTurnTrigger |-> d.lastHeadTurnTrigger,
             headTurnState |-> headTurnState]

\* the two branches without the `else` between them
DispatchBothBranches(triggered) ==
    (IF triggered = "next" THEN <<"next">> ELSE <<>>)
        \o (IF triggered # "none" THEN <<"prev">> ELSE <<>>)

\* lines 457-461: the callbacks called for a selected trigger
Dispatch(triggered) ==
    IF triggered = "next" THEN <<"next">>
    ELSE IF triggered = "prev" THEN <<"prev">>
    ELSE <<>>

\* lines 464-473
Rearm(rearmReady, openFrames, bothOpen) ==
    IF rearmReady THEN [rearmReady |-> TRUE, openFrames |-> openFrames]
    ELSE LET n == IF bothOpen THEN openFrames + 1 ELSE 0
         IN [rearmReady |-> n >= rearmOpenFrames, openFrames |-> n]

\* lines 477-479: one step of the exponential moving average
Ema(value, smooth) ==
    IF value = NaN \/ smooth = NaN THEN NaN
    ELSE (value * (100 - baselineEmaPct) + smooth * baselineEmaPct + 50) \div 100

\* the baseline follows the reading on every frame
AdaptBaselineAlways(bl, bothOpen, inCooldown, smoothLeftEar, smoothRightEar, smoothYaw) ==
    [leftEar |-> Ema(bl.leftEar, smoothLeftEar),
     rightEar |-> Ema(bl.rightEar, smoothRightEar),
     yaw |-> Ema(bl.yaw, smoothYaw)]

\* lines 475-480
AdaptBaseline(bl, bothOpen, inCooldown, smoothLeftEar, smoothRightEar, smoothYaw) ==
    IF bothOpen /\ ~inCooldown
    THEN [leftEar |-> Ema(bl.leftEar, smoothLeftEar),
          rightEar |-> Ema(bl.rightEar, smoothRightEar),
          yaw |-> Ema(bl.yaw, smoothYaw)]
    ELSE bl

\* lines 482-509 and updateDebug: the snapshot written to config.debugElement
updateDebug(cfg, data) == IF cfg.debugElement THEN <<data>> ELSE <<>>

\* what one processFrame call read and classified (for the properties):
\* the raw signals pushed, the smoothed signals, the yaw delta from the
\* baseline and the classification of the eyes
Observation(s, bl, c, now) ==
    [now |-> now,
     leftEar |-> s.leftEarHistory[Len(s.leftEarHistory)],
     rightEar |-> s.rightEarHistory[Len(s.rightEarHistory)],
     yaw |-> s.yawHistory[Len(s.yawHistory)],
     smoothLeftEar |-> s.smoothLeftEar, smoothRightEar |-> s.smoothRightEar,
     smoothYaw |-> s.smoothYaw, yawDelta |-> Minus(s.smoothYaw, bl.yaw),
     leftClosed |-> c.leftClosed, rightClosed |-> c.rightClosed,
     leftOpen |-> c.leftOpen, rightOpen |-> c.rightOpen,
     asymmetric |-> c.earDifference > c.winkDiffThreshold]

\* lines 238-251: the histories after this frame's push, smoothed
Smooth(leftEarHistory, rightEarHistory, yawHistory) ==
    [leftEarHistory |-> leftEarHistory, rightEarHistory |-> rightEarHistory,
     yawHistory |-> yawHistory,
     smoothLeftEar |-> median(leftEarHistory),
     smoothRightEar |-> median(rightEarHistory),
     smoothYaw |-> movingAverage(yawHistory, yawAverageWindow)]

\* lines 448-510: the selected trigger `sel` is executed, the engine re-armed,
\* the baseline adapted, the debug overlay updated
ProcessSelected(d, bl, cfg, s, c, inCooldown, wink, blink, sel, now) ==
    LET fired == sel.triggered # "none"
        bothOpen == c.leftOpen /\ c.rightOpen
        rearm == Rearm(IF fired THEN FALSE ELSE d.rearmReady,
                       IF fired THEN 0 ELSE d.openFrames, bothOpen)
    IN [det |-> [d EXCEPT !.winkState = wink.winkState,
                          !.winkStartTime = wink.winkStartTime,
                          !.blinkState = blink.blinkState,
                          !.blinkHistory = IF fired THEN <<>> ELSE blink.blinkHistory,
                          !.headTurnState = sel.headTurnState,
                          !.lastWinkTrigger = sel.lastWinkTrigger,
                          !.lastHeadTurnTrigger = sel.lastHeadTurnTrigger,
                          !.lastTriggerTime = IF fired THEN now ELSE d.lastTriggerTime,
                          !.rearmReady = rearm.rearmReady,
                          !.openFrames = rearm.openFrames],
        baseline |-> AdaptBaseline(bl, bothOpen, inCooldown, s.smoothLeftEar,
                                   s.smoothRightEar, s.smoothYaw),
        outcome |-> "done",
        calls |-> [i \in DOMAIN Dispatch(sel.triggered) |->
                     [callback |-> Dispatch(sel.triggered)[i],
                      reason |-> sel.triggerReason, now |-> now]],
        debug |-> updateDebug(cfg,
                     [faceDetected |-> TRUE, headTurnState |-> sel.headTurnState,
                      winkState |-> wink.winkState, inCooldown |-> inCooldown,
                      triggered |-> sel.triggered,
                      triggerReason |-> sel.triggerReason]),
        obs |-> <<Observation(s, bl, c, now)>>]

\* lines 344-446: with the gestures tracked, the trigger is selected
ProcessTracked(d, bl, cfg, s, c, inCooldown, wink, blink, headTurnState, now) ==
    ProcessSelected(d, bl, cfg, s, c, inCooldown, wink, blink,
                    SelectTrigger(cfg, d, wink.winkTriggered, blink.blinkHistory,
                                  headTurnState, inCooldown, now),
                    now)

\* lines 290-342: the wink, blink and head-turn state machines step
ProcessTimed(d, bl, cfg, s, c, bothClosed, inCooldown, now) ==
    ProcessTracked(d, bl, cfg, s, c, inCooldown,
                   WinkStep(d, c, bothClosed, now),
                   BlinkStep(d, bothClosed, now),
                   HeadTurnStep(d.headTurnState, Minus(s.smoothYaw, bl.yaw), cfg.sensitivity),
                   now)

\* lines 270-287: a ReferenceError ends the call; otherwise `now` is taken
ProcessClassified(d, bl, cfg, s, c, threw, now) ==
    IF threw
    THEN [det |-> d, baseline |-> bl, outcome |-> "threw", calls |-> <<>>,
          debug |-> <<>>, obs |-> <<Observation(s, bl, c, now)>>]
    ELSE ProcessTimed(d, bl, cfg, s, c,
                      BothClosed(c, d.leftClosedSince, d.rightClosedSince),
                      InCooldown(now, d.lastTriggerTime, CooldownMs(cfg)), now)

\* lines 222-273: the frame is accepted, the histories and the closed-since
\* timestamps are written
ProcessSmoothed(d, bl, cfg, s, c, since, t) ==
    ProcessClassified([d EXCEPT !.lastFrameTime = t,
                                !.leftEarHistory = s.leftEarHistory,
                                !.rightEarHistory = s.rightEarHistory,
                                !.yawHistory = s.yawHistory,
                                !.leftClosedSince = since.leftClosedSince,
                                !.rightClosedSince = since.rightClosedSince],
                      bl, cfg, s, c, since.threw, DateNow(t))

\* lines 253-273
ProcessFace(d, bl, ns, cfg, s, c, t) ==
    ProcessSmoothed(d, bl, cfg, s, c, ClosedSinceStep(d, c), t)

\* lines 232-267
ProcessLandmarks(d, bl, ns, cfg, s, t) ==
    ProcessFace(d, bl, ns, cfg, s,
                Classify(bl, ns, cfg, s.smoothLeftEar, s.smoothRightEar), t)

\* the histories emptied when the face is lost
NoFaceStepClearing(d, t) ==
    [d EXCEPT !.lastFrameTime = t, !.leftEarHistory = <<>>,
              !.rightEarHistory = <<>>, !.yawHistory = <<>>]

\* lines 223-230: the detection state after a frame without a face
NoFaceStep(d, t) == [d EXCEPT !.lastFrameTime = t]

\* no frame is too soon
TooSoonNever(startTime, lastFrameTime) == FALSE

\* line 220: startTime - lastFrameTime < 1000 / targetFps
TooSoon(startTime, lastFrameTime) == (startTime - lastFrameTime) * targetFps < 1000

\* lines 218-510: processFrame at performance.now() = t.
\* -> [det, baseline, outcome, calls, debug, obs]
processFrame(d, bl, ns, cfg, frame, t) ==
    IF TooSoon(t, d.lastFrameTime)
    THEN [det |-> d, baseline |-> bl, outcome |-> "skipped", calls |-> <<>>,
          debug |-> <<>>, obs |-> <<>>]
    ELSE IF ~frame.face
    THEN [det |-> NoFaceStep(d, t), baseline |-> bl,
          outcome |-> "noface", calls |-> <<>>,
          debug |-> updateDebug(cfg, [faceDetected |-> FALSE]), obs |-> <<>>]
    ELSE ProcessLandmarks(d, bl, ns, cfg,
             Smooth(PushHistory(d.leftEarHistory, calculateSeparateEAR(frame).left,
                                earHistoryMax),
                    PushHistory(d.rightEarHistory, calculateSeparateEAR(frame).right,
                                earHistoryMax),
                    PushHistory(d.yawHistory, calculateYaw(frame), yawHistoryMax)),
             t)

\* lines 205-213: detectLoop at time t, the landmarker returning `frame`.
\* -> what processFrame returns, and whether the loop was scheduled again
detectLoop(running, paused, landmarker, video, d, bl, ns, cfg, frame, t) ==
    IF ~running \/ ~landmarker \/ ~video
    THEN [det |-> d, baseline |-> bl, outcome |-> "stopped", calls |-> <<>>,
          debug |-> <<>>, obs |-> <<>>, scheduled |-> FALSE]
    ELSE IF paused
    THEN [det |-> d, baseline |-> bl, outcome |-> "paused", calls |-> <<>>,
          debug |-> <<>>, obs |-> <<>>, scheduled |-> TRUE]
    ELSE [scheduled |-> TRUE] @@ processFrame(d, bl, ns, cfg, frame, t)

(***************************************************************************)
(* Inputs                                                                  *)
(***************************************************************************)
\* the options the viewer passes to initFaceControl (from the settings)
Options ==
    { [debugElement |-> FALSE, sensitivity |-> 10, cooldownMs |-> 900,
       triggerNext |-> "head_right", triggerPrev |-> "head_left"],
      [debugElement |-> TRUE, sensitivity |-> 10, cooldownMs |-> 900,
       triggerNext |-> "double_blink", triggerPrev |-> "long_blink"],
      [debugElement |-> FALSE, sensitivity |-> 20, cooldownMs |-> 300,
       triggerNext |-> "wink_left", triggerPrev |-> "head_right"],
      [debugElement |-> FALSE, sensitivity |-> 20, cooldownMs |-> 300,
       triggerNext |-> "head_left", triggerPrev |-> "head_right"] }

\* what the landmarker returns during calibration, and during live detection
CalFrames == {NoFace, FaceOpen}

LiveFrames == {NoFace, FaceOpen, FaceShut, FaceTurnRight}

\* time between two frame callbacks, and one calibration iteration (ms)
DtSet == {100, 500}

CalDtSet == {1000}

\* the inputs of Spec
LifeOptions == {o \in Options : o.sensitivity = SensScale}

LifeDtSet == {100}

\* the inputs of SpecTurn (head turns) and SpecBlink (eye closures)
TurnOptions == {o \in Options : o.triggerNext \in {"head_right", "head_left"}}

TurnFrames == {FaceOpen, FaceShut, FaceTurnRight, FaceTurnLeft}

BlinkOptions == {o \in Options : o.triggerNext \in {"double_blink", "wink_left"}}

BlinkFrames == {FaceOpen, FaceShut, FaceRightShut}

\* the inputs of SpecRate: callbacks at the display's rate (17 ms) and at
\* half of it (34 ms)
RateFrames == {NoFace, FaceOpen, FaceTurnRight}

RateDtSet == {17, 34}

\* the inputs of SpecLatch: head turns of 20 and 12 degrees, bound to
\* head_right / head_left at sensitivity 1.0
LatchOptions ==
    {o \in Options : o.triggerNext = "head_right" /\ o.sensitivity = SensScale}

LatchFrames == {FaceTurnRight, FaceTurnLeft, FaceTurnSlightRight}

\* the inputs of SpecHold (one frame repeated)
HoldFrames == {FaceOpen, FaceShut, FaceRightShut, FaceTurnRight}

(***************************************************************************)
(* initFaceControl and calibrateBaseline                                   *)
(***************************************************************************)
\* lines 171-179: one calibration sample
Sample(c, frame) ==
    IF ~frame.face THEN c
    ELSE LET ear == calculateSeparateEAR(frame)
         IN [c EXCEPT !.leftEarSamples = Append(@, ear.left),
                      !.rightEarSamples = Append(@, ear.right),
                      !.yawSamples = Append(@, calculateYaw(frame)),
                      !.diffSamples = Append(@, Abs(ear.left - ear.right))]

\* lines 184-190, 191-193
CalibratedBaseline(bl, c) ==
    [leftEar |-> IF Len(c.leftEarSamples) > 0 THEN mean(c.leftEarSamples) ELSE bl.leftEar,
     rightEar |-> IF Len(c.leftEarSamples) > 0 THEN mean(c.rightEarSamples) ELSE bl.rightEar,
     yaw |-> IF Len(c.yawSamples) > 0 THEN mean(c.yawSamples) ELSE bl.yaw]

\* lines 188-189, 193, 196
CalibratedNoise(ns, c) ==
    [leftEar |-> IF Len(c.leftEarSamples) > 0
                 THEN Max(stddev(c.leftEarSamples, 100), noiseFloorEar) ELSE ns.leftEar,
     rightEar |-> IF Len(c.leftEarSamples) > 0
                  THEN Max(stddev(c.rightEarSamples, 100), noiseFloorEar) ELSE ns.rightEar,
     yaw |-> IF Len(c.yawSamples) > 0
             THEN Max(stddev(c.yawSamples, 100), noiseFloorYaw) ELSE ns.yaw,
     diff |-> IF Len(c.diffSamples) > 0
              THEN Max(stddev(c.diffSamples, 100), noiseFloorEar) ELSE ns.diff]

\* line 168: the calibration loop's condition
CalibrationContinues(now, startTime) == now - startTime < calibrationDuration

\* calibrateBaseline called without `await`
ReachesStartUnawaited(calibrationResolved) == TRUE

\* lines 149-153: initFaceControl reaches `isRunning = true; detectLoop()`
\* only when the awaited calibrateBaseline has resolved
ReachesStart(calibrationResolved) == calibrationResolved

\* the frame a landmarker can return: nothing is seen without a video element
Sees(frame) == videoElement \/ ~frame.face

Unchanged_engine == UNCHANGED <<det, baseline, noise>>

Unchanged_observers == UNCHANGED <<last, dispatched, observed, processed, probe>>

\* lines 93-99: the call of initFaceControl, up to the camera request.
\* The viewer calls it only while face control is off, and disables its
\* button until the call settles (toggleCameraControls).
InitFaceControl(options, supported) ==
    /\ initPc = "idle" /\ ~isRunning
    /\ sessions' = sessions + 1
    /\ config' = options
    /\ destroyed' = FALSE
    /\ observed' = <<>>
    /\ dispatched' = <<>>
    /\ processed' = 0
    /\ last' = NoFrameYet
    /\ initPc' = IF supported THEN "camera" ELSE "idle"
    /\ initOutcome' = IF supported THEN "pending" ELSE "rejected"
    /\ UNCHANGED <<faceLandmarker, videoElement, stream, animationId, isRunning,
                   isPaused, cal, clock, rafQueued, ticks, probe>>
    /\ Unchanged_engine

\* lines 102-130: getUserMedia settles; the video element is created
CameraSettles(granted) ==
    /\ initPc = "camera"
    /\ stream' = IF granted THEN TRUE ELSE stream
    /\ videoElement' = IF granted THEN TRUE ELSE videoElement
    /\ initPc' = IF granted THEN "video" ELSE "idle"
    /\ initOutcome' = IF granted THEN "pending" ELSE "rejected"
    /\ UNCHANGED <<faceLandmarker, animationId, isRunning, isPaused, config, cal,
                   clock, rafQueued, destroyed, sessions, ticks>>
    /\ Unchanged_engine /\ Unchanged_observers

\* lines 128-135: the video's loadeddata event; FilesetResolver is called
VideoLoaded ==
    /\ initPc = "video"
    /\ initPc' = "vision"
    /\ UNCHANGED <<faceLandmarker, videoElement, stream, animationId, isRunning,
                   isPaused, config, initOutcome, cal, clock, rafQueued, destroyed,
                   sessions, ticks>>
    /\ Unchanged_engine /\ Unchanged_observers

\* lines 133-146: FilesetResolver settles; createFromOptions is called
VisionSettles(ok) ==
    /\ initPc = "vision"
    /\ initPc' = IF ok THEN "model" ELSE "idle"
    /\ initOutcome' = IF ok THEN "pending" ELSE "rejected"
    /\ UNCHANGED <<faceLandmarker, videoElement, stream, animationId, isRunning,
                   isPaused, config, cal, clock, rafQueued, destroyed, sessions, ticks>>
    /\ Unchanged_engine /\ Unchanged_observers

\* what one run r of detectLoop leaves behind; `queued`: a callback that
\* was queued before the run and is still to come
FrameEffects(r, queued) ==
    /\ det' = r.det
    /\ baseline' = r.baseline
    /\ rafQueued' = (queued \/ r.scheduled)
    /\ animationId' = (animationId \/ r.scheduled)
    /\ last' = [outcome |-> r.outcome, calls |-> r.calls, debug |-> r.debug]
    /\ dispatched' = dispatched \o [i \in DOMAIN r.calls |->
                         r.calls[i] @@ [session |-> sessions]]
    /\ observed' = observed \o r.obs
    /\ probe' = probe
    /\ processed' = processed + (IF r.outcome \in {"noface", "threw", "done"}
                                 THEN 1 ELSE 0)

\* lines 152-153 with detectLoop's first, synchronous run on `frame` at time t
StartDetection(landmarker, bl, ns, frame, t) ==
    /\ isRunning' = TRUE
    /\ noise' = ns
    /\ FrameEffects(detectLoop(TRUE, isPaused, landmarker, videoElement,
                               det, bl, ns, config, frame, t),
                    rafQueued)

\* lines 137-181: createFromOptions settles; calibrateBaseline starts and runs
\* to its first sleep (awaiting detectForVideo's result yields to no task).
\* detectOk: whether detectForVideo returns when handed a removed (null)
\* video element; with a video element it returns.
ModelSettles(ok, frame, detectOk) ==
    /\ initPc = "model"
    /\ Sees(frame)
    /\ videoElement => detectOk
    /\ faceLandmarker' = IF ok THEN TRUE ELSE faceLandmarker
    /\ initPc' = IF ok /\ detectOk THEN "calibrating" ELSE "idle"
    /\ initOutcome' = IF ok /\ detectOk THEN "pending" ELSE "rejected"
    /\ cal' = IF ok /\ detectOk
              THEN Sample([NoCal EXCEPT !.startTime = DateNow(clock)], frame) ELSE cal
    /\ IF ok /\ detectOk /\ ReachesStart(FALSE)
       THEN StartDetection(TRUE, baseline, noise, frame, clock)
       ELSE /\ UNCHANGED <<animationId, isRunning, rafQueued>>
            /\ Unchanged_engine /\ Unchanged_observers
    /\ UNCHANGED <<videoElement, stream, isPaused, config, clock, destroyed,
                   sessions, ticks>>

\* lines 168-200, 149-153: a calibration sleep ends after dt ms.  The loop
\* either samples again (detectForVideo on a closed landmarker raises
\* TypeError, which rejects initFaceControl) or ends: the baselines are set,
\* initFaceControl resumes, sets isRunning and calls detectLoop, which
\* processes `frame` at once.
CalibrationWakes(dt, frame, detectOk) ==
    /\ initPc = "calibrating"
    /\ dt >= calibrationSleepMs
    /\ Sees(frame)
    /\ videoElement => detectOk
    /\ clock' = clock + dt
    /\ IF ~ReachesStart(~CalibrationContinues(DateNow(clock'), cal.startTime))
       THEN LET sampled == faceLandmarker /\ detectOk
            IN /\ frame \in CalFrames
               /\ initPc' = IF sampled THEN "calibrating" ELSE "idle"
               /\ initOutcome' = IF sampled THEN "pending" ELSE "rejected"
               /\ cal' = IF sampled THEN Sample(cal, frame) ELSE cal
               /\ UNCHANGED <<animationId, isRunning, rafQueued>>
               /\ Unchanged_engine /\ Unchanged_observers
       ELSE /\ initPc' = "idle"
            /\ initOutcome' = "resolved"
            /\ cal' = NoCal
            /\ StartDetection(faceLandmarker, CalibratedBaseline(baseline, cal),
                              CalibratedNoise(noise, cal), frame, clock')
    /\ UNCHANGED <<faceLandmarker, videoElement, stream, isPaused, config, destroyed,
                   sessions, ticks>>

(***************************************************************************)
(* The frame loop, and the exported controls                               *)
(***************************************************************************)
\* lines 205-213: the browser runs the queued detectLoop callback, dt ms
\* after the previous step
RafCallback(dt, frame) ==
    /\ rafQueued
    /\ Sees(frame)
    /\ ticks' = ticks + 1
    /\ clock' = clock + dt
    /\ FrameEffects(detectLoop(isRunning, isPaused, faceLandmarker, videoElement,
                               det, baseline, noise, config, frame, clock'),
                    FALSE)
    /\ UNCHANGED <<faceLandmarker, videoElement, stream, isRunning, isPaused, config,
                   noise, initPc, initOutcome, cal, destroyed, sessions>>

\* lines 733-743: "Reset state"
DestroyReset(d) ==
    [d EXCEPT !.blinkHistory = <<>>, !.leftEarHistory = <<>>,
              !.rightEarHistory = <<>>, !.yawHistory = <<>>,
              !.lastTriggerTime = 0, !.headTurnState = "center",
              !.lastHeadTurnTrigger = 0, !.winkState = "none",
              !.winkStartTime = 0, !.lastWinkTrigger = 0]

\* lines 709-744
DestroyFaceControl ==
    /\ isRunning' = FALSE
    /\ isPaused' = FALSE
    /\ rafQueued' = IF animationId THEN FALSE ELSE rafQueued
    /\ animationId' = FALSE
    /\ stream' = FALSE
    /\ videoElement' = FALSE
    /\ faceLandmarker' = FALSE
    /\ det' = DestroyReset(det)
    /\ destroyed' = TRUE
    /\ UNCHANGED <<config, baseline, noise, initPc, initOutcome, cal, clock,
                   sessions, ticks>>
    /\ Unchanged_observers

\* lines 695-697
PauseFaceControl ==
    /\ ~isPaused
    /\ isPaused' = TRUE
    /\ UNCHANGED <<faceLandmarker, videoElement, stream, animationId, isRunning,
                   config, initPc, initOutcome, cal, clock, rafQueued, destroyed,
                   sessions, ticks>>
    /\ Unchanged_engine /\ Unchanged_observers

\* lines 702-704
ResumeFaceControl ==
    /\ isPaused
    /\ isPaused' = FALSE
    /\ UNCHANGED <<faceLandmarker, videoElement, stream, animationId, isRunning,
                   config, initPc, initOutcome, cal, clock, rafQueued, destroyed,
                   sessions, ticks>>
    /\ Unchanged_engine /\ Unchanged_observers

(***************************************************************************)
(* The specification                                                       *)
(***************************************************************************)
Init ==
    /\ faceLandmarker = FALSE /\ videoElement = FALSE /\ stream = FALSE
    /\ animationId = FALSE /\ isRunning = FALSE /\ isPaused = FALSE
    /\ config = InitConfig
    /\ det = InitDet
    /\ baseline = InitBaseline
    /\ noise = InitNoise
    /\ initPc = "idle" /\ initOutcome = "none"
    /\ cal = NoCal
    /\ clock = 0
    /\ rafQueued = FALSE
    /\ last = NoFrameYet
    /\ probe = NoProbe
    /\ dispatched = <<>>
    /\ observed = <<>>
    /\ processed = 0
    /\ destroyed = FALSE
    /\ sessions = 0
    /\ ticks = 0

Next ==
    \/ /\ sessions < MaxSessions
       /\ \E options \in LifeOptions, supported \in BOOLEAN :
             InitFaceControl(options, supported)
    \/ \E granted \in BOOLEAN : CameraSettles(granted)
    \/ VideoLoaded
    \/ \E ok \in BOOLEAN : VisionSettles(ok)
    \/ \E ok \in BOOLEAN, frame \in CalFrames, detectOk \in BOOLEAN :
          ModelSettles(ok, frame, detectOk)
    \/ \E dt \in CalDtSet, frame \in LiveFrames, detectOk \in BOOLEAN :
          CalibrationWakes(dt, frame, detectOk)
    \/ /\ ticks < MaxTicks
       /\ \E dt \in LifeDtSet, frame \in LiveFrames : RafCallback(dt, frame)
    \/ DestroyFaceControl
    \/ PauseFaceControl
    \/ ResumeFaceControl

\* every input, two sessions, few frames
Spec == Init /\ [][Next]_vars

\* one session that starts without incident, over the given inputs
SessionNext(options, frames, maxTicks) ==
    \/ /\ sessions < 1
       /\ \E o \in options : InitFaceControl(o, TRUE)
    \/ CameraSettles(TRUE)
    \/ VideoLoaded
    \/ VisionSettles(TRUE)
    \/ \E frame \in CalFrames : ModelSettles(TRUE, frame, TRUE)
    \/ \E dt \in CalDtSet, frame \in frames : CalibrationWakes(dt, frame, TRUE)
    \/ /\ ticks < maxTicks
       /\ \E dt \in DtSet, frame \in frames : RafCallback(dt, frame)

NextTurn == SessionNext(TurnOptions, TurnFrames, MaxTurnTicks)

\* one session bound to head turns, more frames
SpecTurn == Init /\ [][NextTurn]_vars

NextBlink == SessionNext(BlinkOptions, BlinkFrames, MaxBlinkTicks)

\* the landmarker returns the frame it returned for the previous callback
Repeats(frame) ==
    /\ Len(det.leftEarHistory) > 0 /\ Len(det.yawHistory) > 0
    /\ calculateSeparateEAR(frame).left = det.leftEarHistory[Len(det.leftEarHistory)]
    /\ calculateSeparateEAR(frame).right = det.rightEarHistory[Len(det.rightEarHistory)]
    /\ calculateYaw(frame) = det.yawHistory[Len(det.yawHistory)]

NextHold ==
    \/ /\ sessions < 1
       /\ \E o \in Options : InitFaceControl(o, TRUE)
    \/ CameraSettles(TRUE)
    \/ VideoLoaded
    \/ VisionSettles(TRUE)
    \/ \E frame \in CalFrames : ModelSettles(TRUE, frame, TRUE)
    \/ \E dt \in CalDtSet, frame \in HoldFrames : CalibrationWakes(dt, frame, TRUE)
    \/ /\ ticks < MaxHoldTicks
       /\ \E dt \in LifeDtSet, frame \in HoldFrames :
             /\ ticks >= FreeHoldTicks => Repeats(frame)
             /\ RafCallback(dt, frame)

\* one session in which, after a few frames, the same frame is repeated
SpecHold == Init /\ [][NextHold]_vars

NextRate ==
    \/ /\ sessions < 1
       /\ \E o \in TurnOptions : InitFaceControl(o, TRUE)
    \/ CameraSettles(TRUE)
    \/ VideoLoaded
    \/ VisionSettles(TRUE)
    \/ \E frame \in CalFrames : ModelSettles(TRUE, frame, TRUE)
    \/ \E dt \in CalDtSet, frame \in RateFrames : CalibrationWakes(dt, frame, TRUE)
    \/ /\ ticks < MaxRateTicks
       /\ \E dt \in RateDtSet, frame \in RateFrames : RafCallback(dt, frame)

\* one session whose frame callbacks come faster than the target rate
SpecRate == Init /\ [][NextRate]_vars

NextLatch ==
    \/ /\ sessions < 1
       /\ \E o \in LatchOptions : InitFaceControl(o, TRUE)
    \/ CameraSettles(TRUE)
    \/ VideoLoaded
    \/ VisionSettles(TRUE)
    \/ \E frame \in CalFrames : ModelSettles(TRUE, frame, TRUE)
    \/ \E dt \in CalDtSet, frame \in LatchFrames \cup {FaceOpen} :
          CalibrationWakes(dt, frame, TRUE)
    \/ /\ ticks < MaxLatchTicks
       /\ \E dt \in DtSet, frame \in LatchFrames : RafCallback(dt, frame)

\* one session of head turns that grow and shrink
SpecLatch == Init /\ [][NextLatch]_vars

\* a session bound to head turns to the left at the highest sensitivity
DriftOptions == {o \in Options : o.triggerNext = "head_left"}

\* the head is turned right, or at the yaw of calibration
DriftFrames == {FaceTurnRight, FaceOpen}

\* the head has not come back from a turn: the frames read so far are at
\* rest, or the last one is turned
StillTurned ==
    IF \A i \in DOMAIN observed : observed[i].yaw # calculateYaw(FaceTurnRight)
    THEN TRUE
    ELSE observed[Len(observed)].yaw = calculateYaw(FaceTurnRight)

NextDrift ==
    \/ /\ sessions < 1
       /\ \E o \in DriftOptions : InitFaceControl(o, TRUE)
    \/ CameraSettles(TRUE)
    \/ VideoLoaded
    \/ VisionSettles(TRUE)
    \/ \E frame \in CalFrames : ModelSettles(TRUE, frame, TRUE)
    \/ \E dt \in CalDtSet : CalibrationWakes(dt, FaceOpen, TRUE)
    \/ /\ ticks < MaxDriftTicks
       /\ \E dt \in LifeDtSet, frame \in DriftFrames :
             /\ frame = FaceTurnRight => StillTurned
             /\ RafCallback(dt, frame)

\* one session in which a turn to the right is held for some frames and the
\* head then returns to the yaw of calibration
SpecDrift == Init /\ [][NextDrift]_vars

\* normal frames and a degenerate one, all with the eyes open
DegenerateFrames == {FaceOpen, FaceTurnRight, FaceCollapsed}

NextDegenerate ==
    \/ /\ sessions < 1
       /\ \E o \in TurnOptions : InitFaceControl(o, TRUE)
    \/ CameraSettles(TRUE)
    \/ VideoLoaded
    \/ VisionSettles(TRUE)
    \/ \E frame \in CalFrames : ModelSettles(TRUE, frame, TRUE)
    \/ \E dt \in CalDtSet : CalibrationWakes(dt, FaceOpen, TRUE)
    \/ /\ ticks < MaxDegenerateTicks
       /\ \E dt \in DtSet, frame \in DegenerateFrames : RafCallback(dt, frame)

\* one session in which the landmarker may return a degenerate frame
SpecDegenerate == Init /\ [][NextDegenerate]_vars

(***************************************************************************)
(* The helpers and the trigger selection applied on their own, once, to an  *)
(* input drawn from the sets below                                         *)
(***************************************************************************)
\* histories of at most two values
ProbeValues ==
    {<<>>} \cup {<<a>> : a \in {0, 100000, 300000}}
          \cup {<<a, b>> : a, b \in {0, 100000, 300000}}

\* eyes whose corners can coincide, cheeks that can coincide with the nose
ProbeEyes == {Eye(vA, vB, h) : vA, vB \in {0, 30}, h \in {0, 100}}

ProbeLandmarks == {Face(OpenEye, OpenEye, ld, rd) : ld, rd \in {0, 7, 9}}

Gestures ==
    {"double_blink", "long_blink", "wink_left", "wink_right", "head_right", "head_left"}

ProbeConfigs ==
    {[InitConfig EXCEPT !.triggerNext = n, !.triggerPrev = p] : n, p \in Gestures}

\* Date.now() of the frame the selection runs in
ProbeNow == DateNow(calibrationDuration)

\* a blink of dur ms that ended ago ms before now
BlinkRecord(now, ago, dur) == [start |-> now - ago - dur, end |-> now - ago]

\* no blink; two short blinks 200 ms apart; one long blink; a long blink
\* followed by two short ones, all of them recent
ProbeBlinkHistories ==
    { <<>>,
      <<BlinkRecord(ProbeNow, 400, 100), BlinkRecord(ProbeNow, 100, 100)>>,
      <<BlinkRecord(ProbeNow, 200, 700)>>,
      <<BlinkRecord(ProbeNow, 299, 700), BlinkRecord(ProbeNow, 220, 70),
        BlinkRecord(ProbeNow, 60, 70)>> }

\* what the stages before the selection leave for it on a frame
ProbeFrames ==
    [winkTriggered : {"none", "wink_left", "wink_right"},
     blinkHistory : ProbeBlinkHistories,
     headTurnState : {"center", "right", "left", "triggered_right", "triggered_left"},
     inCooldown : BOOLEAN, rearmReady : BOOLEAN]

\* the slider of the settings page: 0.5 to 2.0 in steps of 0.1
ProbeSensitivities == 5..20

\* noise estimates from the floor of calibrateBaseline upwards, per eye
ProbeNoises ==
    {[InitNoise EXCEPT !.leftEar = l, !.rightEar = r] :
        l, r \in {noiseFloorEar, 10000, 20000, 30000}}

ProbeBaselines == {InitBaseline, [InitBaseline EXCEPT !.leftEar = 300000, !.rightEar = 300000]}

\* smoothed eye readings from shut to wide open
ProbeEars == {0, 100000, 200000, 300000}

\* performance.now() of the frame processFrame is applied to on its own
ProbeT == calibrationDuration

\* an eye as the frame before left it: shut (closed since 100, 200, 400 or
\* 600 ms, or with no onset recorded) or open.  Lines 270-273 record the onsets,
\* lines 318-321 open the blink and lines 297-302 enter the wink.
ProbeEyeTracks ==
    {[history |-> <<0>>, since |-> s] :
        s \in {Null, ProbeNow - 100, ProbeNow - 200, ProbeNow - 400, ProbeNow - 600}}
    \cup {[history |-> <<300000>>, since |-> Null]}

\* a blink is open only over a synchronized closure
ProbeBlinkStates(l, r) ==
    {Null} \cup (IF l.since # Null /\ r.since # Null
                    /\ Abs(l.since - r.since) <= blinkSyncMs
                 THEN {Max(l.since, r.since)} ELSE {})

\* a left wink is held only over a right eye closed alone
ProbeWinkStates(l, r) ==
    {[winkState |-> "none", winkStartTime |-> 0]}
    \cup (IF r.since # Null /\ l.since = Null
          THEN {[winkState |-> "left_winking", winkStartTime |-> r.since]} ELSE {})

ProbeDet(l, r, b, w) ==
    [InitDet EXCEPT !.lastFrameTime = ProbeT - 100,
                    !.leftEarHistory = l.history, !.rightEarHistory = r.history,
                    !.yawHistory = <<0>>,
                    !.leftClosedSince = l.since, !.rightClosedSince = r.since,
                    !.blinkState = b,
                    !.winkState = w.winkState, !.winkStartTime = w.winkStartTime]

ProbeDets ==
    UNION {{ProbeDet(p[1], p[2], b, w) : b \in ProbeBlinkStates(p[1], p[2]),
                                         w \in ProbeWinkStates(p[1], p[2])} :
           p \in ProbeEyeTracks \X ProbeEyeTracks}

\* the time between two frame callbacks of the probes, and the length of a
\* pause (pauseFaceControl ... resumeFaceControl) before the frame
ProbeFrameMs == 100
ProbePauseMs == 500

\* the engine was paused after the frame that opened a BlinkEvent
ProbePausedDets ==
    {[d EXCEPT !.lastFrameTime = ProbeT - ProbePauseMs,
               !.blinkState = ProbeNow - ProbePauseMs - ProbeFrameMs,
               !.leftClosedSince = ProbeNow - ProbePauseMs - ProbeFrameMs,
               !.rightClosedSince = ProbeNow - ProbePauseMs - ProbeFrameMs] :
        d \in {e \in ProbeDets : e.blinkState # Null /\ e.winkState = "none"}}

\* an eye opened wide
WideEye == Eye(40, 40, 100)

\* faces looking ahead, each eye shut, open or wide open
ProbeFaces == {Face(le, re, 9, 9) : le, re \in {ShutEye, OpenEye, WideEye}}

ProbeBindings ==
    {[InitConfig EXCEPT !.triggerNext = "long_blink", !.triggerPrev = "double_blink"],
     [InitConfig EXCEPT !.triggerNext = "wink_left", !.triggerPrev = "head_right"]}

Unchanged_program ==
    UNCHANGED <<faceLandmarker, videoElement, stream, animationId, isRunning,
                isPaused, config, det, baseline, noise, initPc, initOutcome, cal,
                clock, rafQueued, last, dispatched, observed, processed, destroyed,
                sessions, ticks>>

ApplyMean(values) ==
    /\ probe = NoProbe
    /\ probe' = [helper |-> "mean", input |-> values, result |-> mean(values)]
    /\ Unchanged_program

ApplyMedian(values) ==
    /\ probe = NoProbe
    /\ probe' = [helper |-> "median", input |-> values, result |-> median(values)]
    /\ Unchanged_program

ApplyMovingAverage(values, windowSize) ==
    /\ probe = NoProbe
    /\ probe' = [helper |-> "movingAverage", input |-> values,
                 result |-> movingAverage(values, windowSize)]
    /\ Unchanged_program

ApplyEyeAspectRatio(eye) ==
    /\ probe = NoProbe
    /\ probe' = [helper |-> "eyeAspectRatio", input |-> eye,
                 result |-> eyeAspectRatio(eye)]
    /\ Unchanged_program

ApplyCalculateYaw(landmarks) ==
    /\ probe = NoProbe
    /\ probe' = [helper |-> "calculateYaw", input |-> landmarks,
                 result |-> calculateYaw(landmarks)]
    /\ Unchanged_program

\* lines 218-510 on one frame, from the detection state d
ApplyProcessFrame(d, cfg, frame) ==
    /\ probe = NoProbe
    /\ probe' = [helper |-> "processFrame",
                 input |-> [det |-> d, config |-> cfg, frame |-> frame],
                 result |-> processFrame(d, InitBaseline, InitNoise, cfg, frame, ProbeT)]
    /\ Unchanged_program

\* lines 218-510 on one frame, without and with a debug sink configured
ApplyWithAndWithoutDebug(d, cfg, frame) ==
    /\ probe = NoProbe
    /\ probe' = [helper |-> "debugElement",
                 input |-> [det |-> d, config |-> cfg, frame |-> frame],
                 result |-> processFrame(d, InitBaseline, InitNoise,
                                         [cfg EXCEPT !.debugElement = FALSE], frame, ProbeT),
                 debugging |-> processFrame(d, InitBaseline, InitNoise,
                                            [cfg EXCEPT !.debugElement = TRUE], frame,
                                            ProbeT)]
    /\ Unchanged_program

\* lines 253-284 for the given baseline, noise, sensitivity and readings
ApplyClassify(bl, ns, sensitivity, smoothLeftEar, smoothRightEar) ==
    /\ probe = NoProbe
    /\ probe' =
         [helper |-> "Classify",
          input |-> [baseline |-> bl, noise |-> ns, sensitivity |-> sensitivity,
                     smoothLeftEar |-> smoothLeftEar, smoothRightEar |-> smoothRightEar],
          result |-> Classify(bl, ns, [InitConfig EXCEPT !.sensitivity = sensitivity],
                              smoothLeftEar, smoothRightEar)]
    /\ Unchanged_program

\* lines 344-462 on a frame with the given wink, blinks and head-turn state
ApplySelectTrigger(cfg, input) ==
    /\ probe = NoProbe
    /\ probe' =
         [helper |-> "SelectTrigger",
          input |-> [config |-> cfg] @@ input,
          result |-> SelectTrigger(cfg, [InitDet EXCEPT !.rearmReady = input.rearmReady],
                                   input.winkTriggered, input.blinkHistory,
                                   input.headTurnState, input.inCooldown, ProbeNow),
          calls |-> Dispatch(SelectTrigger(cfg,
                                 [InitDet EXCEPT !.rearmReady = input.rearmReady],
                                 input.winkTriggered, input.blinkHistory,
                                 input.headTurnState, input.inCooldown,
                                 ProbeNow).triggered)]
    /\ Unchanged_program

NextPure ==
    \/ \E values \in ProbeValues : ApplyMean(values)
    \/ \E values \in ProbeValues : ApplyMedian(values)
    \/ \E values \in ProbeValues : ApplyMovingAverage(values, yawAverageWindow)
    \/ \E eye \in ProbeEyes : ApplyEyeAspectRatio(eye)
    \/ \E landmarks \in ProbeLandmarks : ApplyCalculateYaw(landmarks)
    \/ \E cfg \in ProbeConfigs, input \in ProbeFrames : ApplySelectTrigger(cfg, input)
    \/ \E d \in ProbeDets \cup ProbePausedDets, cfg \in ProbeBindings,
          frame \in ProbeFaces :
             ApplyProcessFrame(d, cfg, frame)
    \/ \E d \in ProbeDets, cfg \in ProbeBindings,
          frame \in ProbeFaces \cup {NoFace, FaceTurnRight} :
             ApplyWithAndWithoutDebug(d, cfg, frame)
    \/ \E bl \in ProbeBaselines, ns \in ProbeNoises, sensitivity \in ProbeSensitivities,
          smoothLeftEar \in ProbeEars, smoothRightEar \in ProbeEars :
             ApplyClassify(bl, ns, sensitivity, smoothLeftEar, smoothRightEar)

SpecPure == Init /\ [][NextPure]_vars

\* one session bound to blinks and winks, more frames
SpecBlink == Init /\ [][NextBlink]_vars

(***************************************************************************)
(* Properties                                                              *)
(***************************************************************************)
\* C1: within a session, two successive dispatches of onNext/onPrev are at
\* least config.cooldownMs apart on the Date.now() clock.
C1_CooldownSpacing ==
    \A i \in 1..(Len(dispatched) - 1) :
        dispatched[i + 1].now - dispatched[i].now >= config.cooldownMs

\* two dispatches in one session, under a cooldown that is not zero
C1_TwoDispatches == Len(dispatched) >= 2 /\ config.cooldownMs > 0

\* C2: one processed frame calls at most one of onNext and onPrev.
C2_AtMostOneCallback == Len(last.calls) <= 1

\* a processed frame that called a callback
C2_FrameDispatched == last.outcome = "done" /\ Len(last.calls) = 1

\* C3: processFrame never raises for a frame the landmarker returned.
C3_NeverRaises == last.outcome # "threw"

\* C4: destroyFaceControl leaves every field of the detection state at its
\* initial value.
C4_DestroyResetsAll == [][DestroyFaceControl => det' = InitDet]_vars

\* C5: once destroyFaceControl has returned, and until initFaceControl is
\* called again, the engine is not running, no frame callback is queued, no
\* frame is processed and no callback is dispatched.
C5_DestroyIsFinal ==
    [][destroyed' => /\ ~isRunning' /\ ~rafQueued'
                     /\ destroyed => /\ processed' = processed
                                     /\ dispatched' = dispatched]_vars

\* C6: while an initFaceControl call has not finished calibrating, the
\* engine is not running, no frame callback is queued, and the session has
\* processed no frame and dispatched no callback.
C6_NoFrameBeforeCalibrated ==
    initPc # "idle" =>
        /\ ~isRunning /\ ~rafQueued
        /\ processed = 0 /\ Len(dispatched) = 0

\* the calibration resolved and live frames were processed
C6_LiveAfterCalibration == initOutcome = "resolved" /\ isRunning /\ processed >= 1

\* C7: a calibration that saw no face in any sample leaves the baseline and
\* the noise at their documented defaults.
C7_NoFaceCalibrationDefaults ==
    [][(/\ initPc = "calibrating" /\ initOutcome' = "resolved"
        /\ Len(cal.leftEarSamples) = 0 /\ Len(cal.yawSamples) = 0)
       => (/\ CalibratedBaseline(baseline, cal) = InitBaseline
           /\ noise' = InitNoise)]_vars

\* both eyes classified closed / open by the frame observation o
ObservedShut(o) == o.leftClosed /\ o.rightClosed

ObservedOpen(o) == o.leftOpen /\ o.rightOpen

\* the frames a..b-1 of the session are all both-eyes-closed, the frame
\* before them and the frame b are both-eyes-open
ObservedBlink(a, b) ==
    /\ 1 < a /\ a < b /\ b <= Len(observed)
    /\ ObservedOpen(observed[a - 1])
    /\ \A i \in a..(b - 1) : ObservedShut(observed[i])
    /\ ObservedOpen(observed[b])

ObservedBlinkMs(a, b) == observed[b].now - observed[a].now

\* the session's only dispatch so far: `callback`, by the last frame
OnlyDispatch(callback) ==
    /\ Len(dispatched) = 1
    /\ dispatched[1].callback = callback
    /\ dispatched[1].now = observed[Len(observed)].now

\* C8: two synchronised blinks of 60..350 ms each, more than 80 ms and less
\* than 700 ms apart, the second ending on this frame, with triggerNext
\* bound to double_blink: exactly one onNext is dispatched, on this frame.
C8_DoubleBlinkDispatches ==
    (/\ config.triggerNext = "double_blink"
     /\ \E a, b, c \in 1..Len(observed) :
           /\ ObservedBlink(a, b) /\ ObservedBlink(c, Len(observed))
           /\ b < c
           /\ \A i \in b..(c - 1) : ObservedOpen(observed[i])
           /\ ObservedBlinkMs(a, b) >= blinkMinMs /\ ObservedBlinkMs(a, b) <= blinkMaxMs
           /\ ObservedBlinkMs(c, Len(observed)) >= blinkMinMs
           /\ ObservedBlinkMs(c, Len(observed)) <= blinkMaxMs
           /\ ObservedBlinkMs(b, c) > minBlinkGapMs
           /\ ObservedBlinkMs(b, c) < doubleBlinkWindowMs)
    => OnlyDispatch("next")

\* C9: one synchronised closure of both eyes held longer than 420 ms and
\* shorter than 900 ms, ending on this frame, with triggerPrev bound to
\* long_blink: exactly one onPrev is dispatched, on this frame.
C9_LongBlinkDispatches ==
    (/\ config.triggerPrev = "long_blink"
     /\ \E a \in 1..Len(observed) :
           /\ ObservedBlink(a, Len(observed))
           /\ \A i \in 1..(a - 1) : ObservedOpen(observed[i])
           /\ ObservedBlinkMs(a, Len(observed)) > longBlinkMs
           /\ ObservedBlinkMs(a, Len(observed)) < longBlinkMaxMs)
    => OnlyDispatch("prev")

\* the user's left eye alone is closed (the engine's right-eye reading)
ObservedLeftWink(o) == o.rightClosed /\ o.leftOpen /\ o.asymmetric

\* C10: a wink of the user's left eye held 60..500 ms and released on this
\* frame, with triggerNext bound to wink_left: exactly one onNext is
\* dispatched, on this frame.
C10_WinkDispatches ==
    (/\ config.triggerNext = "wink_left"
     /\ \E a \in 2..(Len(observed) - 1) :
           /\ \A i \in 1..(a - 1) : ObservedOpen(observed[i])
           /\ \A i \in a..(Len(observed) - 1) : ObservedLeftWink(observed[i])
           /\ ObservedOpen(observed[Len(observed)])
           /\ ObservedBlinkMs(a, Len(observed)) >= winkMinMs
           /\ ObservedBlinkMs(a, Len(observed)) <= winkMaxMs)
    => OnlyDispatch("next")

\* the engine's left eye alone is closed (the user's right eye)
ObservedRightWink(o) == o.leftClosed /\ o.rightOpen /\ o.asymmetric

\* the frames a..b-1 all read the same one-sided closure, the frame before
\* them and the frame b read none
ObservedWinkHeld(a, b) ==
    /\ 1 < a /\ a < b /\ b <= Len(observed)
    /\ ~ObservedLeftWink(observed[a - 1]) /\ ~ObservedRightWink(observed[a - 1])
    /\ \/ \A i \in a..(b - 1) : ObservedLeftWink(observed[i])
       \/ \A i \in a..(b - 1) : ObservedRightWink(observed[i])
    /\ ~ObservedLeftWink(observed[b]) /\ ~ObservedRightWink(observed[b])

\* some callback was dispatched by a frame of observed[a..b]
DispatchedWithin(a, b) ==
    \E k \in 1..Len(dispatched) :
        dispatched[k].now >= observed[a].now /\ dispatched[k].now <= observed[b].now

ObservedTurned(o) ==
    Abs(o.yawDelta) > (headTurnDeg * YawScale * SensScale) \div config.sensitivity

ObservedCentered(o) == Abs(o.yawDelta) < headReturnDeg * YawScale

\* on every frame of observed[a..b] the head is turned and not centered
ObservedTurnHeld(a, b) ==
    /\ 1 <= a /\ a <= b /\ b <= Len(observed)
    /\ \A i \in a..b : ObservedTurned(observed[i]) /\ ~ObservedCentered(observed[i])

\* the callbacks dispatched by the frames of observed[a..b]
DispatchesWithin(a, b) ==
    {k \in 1..Len(dispatched) :
        dispatched[k].now >= observed[a].now /\ dispatched[k].now <= observed[b].now}

\* C12: while the head is held turned without returning to the center band
\* at most one callback is dispatched, however long the hold; a hold that
\* begins on the session's first frame dispatches exactly one, on that frame.
C12_HeldTurnDispatchesOnce ==
    \A a, b \in 1..Len(observed) :
        ObservedTurnHeld(a, b) =>
            /\ Cardinality(DispatchesWithin(a, b)) <= 1
            /\ a = 1 => /\ Cardinality(DispatchesWithin(a, b)) = 1
                        /\ dispatched[1].now = observed[1].now

\* a turn held over four frames and more than a cooldown, dispatched once
C12_TurnHeldPastCooldown ==
    /\ Len(observed) >= 4
    /\ ObservedTurnHeld(1, Len(observed))
    /\ observed[Len(observed)].now - observed[1].now > config.cooldownMs
    /\ Len(dispatched) = 1
    /\ dispatched[1].reason \in {"head_left", "head_right"}

\* observed[k..m] is an excursion: held turned, entered from the center band
ObservedExcursion(k, m) ==
    /\ 1 < k /\ ObservedTurnHeld(k, m)
    /\ ObservedCentered(observed[k - 1])

\* the frame t, turned, dispatched a callback; the head then returned to the
\* center and is in the excursion observed[k..m], nothing else dispatched
\* before it and both eyes open on every frame since t
SecondExcursion(t, k, m) ==
    /\ 1 <= t /\ t < k - 1
    /\ ObservedTurnHeld(t, t)
    /\ Cardinality(DispatchesWithin(t, t)) = 1
    /\ ObservedExcursion(k, m)
    /\ DispatchesWithin(t + 1, k - 1) = {}
    /\ \A i \in t..m : ObservedOpen(observed[i])

\* on the frame m the cooldown since the dispatch of frame t has elapsed and
\* the engine is re-armed
ReadyAgain(t, m) ==
    /\ observed[m].now - observed[t].now > config.cooldownMs
    /\ m - t >= rearmOpenFrames

\* C13 (as stated): every excursion that follows a dispatched turn and a
\* return to the center dispatches a callback of its own before it ends.
C13_EveryExcursionDispatches ==
    \A t, k, m \in 1..Len(observed) :
        (/\ SecondExcursion(t, k, m)
         /\ m < Len(observed) /\ ObservedCentered(observed[m + 1]))
        => Cardinality(DispatchesWithin(k, m)) = 1

\* C13 (amended): an excursion that follows a dispatched turn and a return
\* to the center dispatches exactly one callback of its own once it is held
\* on a frame where the cooldown has elapsed and the engine is re-armed.
C13_ReadyExcursionDispatches ==
    \A t, k, m \in 1..Len(observed) :
        (SecondExcursion(t, k, m) /\ ReadyAgain(t, m))
        => Cardinality(DispatchesWithin(k, m)) = 1

\* two excursions, two dispatches
C13_TwoExcursionsDispatched ==
    /\ Len(dispatched) = 2
    /\ \E t, k \in 1..Len(observed) :
          SecondExcursion(t, k, Len(observed)) /\ ReadyAgain(t, Len(observed))

\* the completed blink events recorded for the closure observed[a..b-1]
RecordedBlinks(a, b) ==
    {i \in 1..Len(det.blinkHistory) :
        /\ det.blinkHistory[i].start = observed[a].now
        /\ det.blinkHistory[i].end = observed[b].now}

\* C14: when both eyes were closed for longer than blinkMinMs and this frame
\* finds them open again, exactly one completed blink event is recorded for
\* the closure, its end after its start (or the frame has just dispatched a
\* trigger, which empties the list).
C14_ClosureRecordsOneBlink ==
    \A a \in 1..Len(observed) :
        (/\ ObservedBlink(a, Len(observed))
         /\ ObservedBlinkMs(a, Len(observed)) > blinkMinMs)
        => \/ /\ Cardinality(RecordedBlinks(a, Len(observed))) = 1
              /\ observed[Len(observed)].now > observed[a].now
           \/ DispatchesWithin(Len(observed), Len(observed)) # {}

\* C15: a frame without a face changes nothing of the detection state but
\* the time of the last frame, leaves the baseline alone, dispatches nothing
\* and writes only a faceDetected = false snapshot.
C15_NoFaceChangesNothing ==
    [][(processed' = processed + 1 /\ last'.outcome = "noface")
       => /\ det' = [det EXCEPT !.lastFrameTime = det'.lastFrameTime]
          /\ ticks' # ticks => baseline' = baseline /\ noise' = noise
          /\ dispatched' = dispatched /\ last'.calls = <<>>
          /\ last'.debug = IF config'.debugElement
                           THEN <<[faceDetected |-> FALSE]>> ELSE <<>>]_vars

\* a frame without a face, after frames with a face filled the histories
C15_FaceLost ==
    /\ last.outcome = "noface" /\ ticks >= 1
    /\ Len(det.leftEarHistory) >= 1 /\ Len(det.yawHistory) >= 1

\* C16: when an initFaceControl call fails, the engine is left without a
\* stream, a video element and a landmarker, not running, no frame callback
\* queued.
C16_FailedInitLeavesNothing ==
    [][(initOutcome # "rejected" /\ initOutcome' = "rejected")
       => /\ ~stream' /\ ~videoElement' /\ ~faceLandmarker'
          /\ ~isRunning' /\ ~rafQueued']_vars

\* the frames observed[a..b] all carry the same raw signals
ObservedConstant(a, b) ==
    /\ 1 <= a /\ a <= b /\ b <= Len(observed)
    /\ \A i \in a..b : /\ observed[i].leftEar = observed[b].leftEar
                       /\ observed[i].rightEar = observed[b].rightEar
                       /\ observed[i].yaw = observed[b].yaw

\* an eye reading outside the hysteresis band keeps its classification
SameOutsideBand(closedBefore, openBefore, closedNow, openNow) ==
    (closedBefore \/ openBefore) => (closedNow = closedBefore /\ openNow = openBefore)

\* C17: once the same frame has been fed for a whole history window, the
\* smoothed signals equal the frame's raw signals; one frame later and from
\* then on, an eye classified closed or open keeps that classification.
C17_ConstantFrameConverges ==
    LET n == Len(observed) IN
    /\ ObservedConstant(n - earHistoryMax + 1, n)
       => /\ observed[n].smoothLeftEar = observed[n].leftEar
          /\ observed[n].smoothRightEar = observed[n].rightEar
          /\ observed[n].smoothYaw = observed[n].yaw
    /\ ObservedConstant(n - earHistoryMax, n)
       => /\ SameOutsideBand(observed[n - 1].leftClosed, observed[n - 1].leftOpen,
                             observed[n].leftClosed, observed[n].leftOpen)
          /\ SameOutsideBand(observed[n - 1].rightClosed, observed[n - 1].rightOpen,
                             observed[n].rightClosed, observed[n].rightOpen)

\* a frame repeated for more than a window, after a frame that differed
C17_ConvergedAfterChange ==
    LET n == Len(observed) IN
    /\ ObservedConstant(n - earHistoryMax, n)
    /\ n - earHistoryMax > 1
    /\ ~ObservedConstant(n - earHistoryMax - 1, n)

\* the helper applied last was given a degenerate input: an empty history,
\* an eye whose corners coincide, a nose that coincides with both cheeks
ProbeDegenerate ==
    \/ /\ probe.helper \in {"mean", "median", "movingAverage"}
       /\ probe.input = <<>>
    \/ /\ probe.helper = "eyeAspectRatio"
       /\ probe.input.horizontal = 0
    \/ /\ probe.helper = "calculateYaw"
       /\ probe.input.leftDist + probe.input.rightDist = 0

\* C18: mean, median, movingAverage, eyeAspectRatio and calculateYaw return 0
\* on a degenerate input (empty history, zero distance denominator).
C18_DegenerateInputGivesZero == ProbeDegenerate => probe.result = 0

\* the gestures present on the frame the selection was applied to
ProbePresent ==
    (IF probe.input.winkTriggered # "none" THEN {probe.input.winkTriggered} ELSE {})
    \cup (IF DoubleBlink(probe.input.blinkHistory, ProbeNow) THEN {"double_blink"} ELSE {})
    \cup (IF LongBlink(probe.input.blinkHistory, ProbeNow) THEN {"long_blink"} ELSE {})
    \cup (IF probe.input.headTurnState = "right" THEN {"head_right"} ELSE {})
    \cup (IF probe.input.headTurnState = "left" THEN {"head_left"} ELSE {})

\* wink > double-blink > long-blink > head-turn
Priority(gesture) ==
    CASE gesture \in {"wink_left", "wink_right"} -> 1
      [] gesture = "double_blink" -> 2
      [] gesture = "long_blink" -> 3
      [] gesture \in {"head_right", "head_left"} -> 4

\* the present gestures that triggerNext or triggerPrev names
ProbeBoundPresent == {g \in ProbePresent : Bound(probe.input.config, g) # "none"}

Highest(gestures) == CHOOSE g \in gestures : \A h \in gestures : Priority(g) <= Priority(h)

\* C19: a frame that dispatches, dispatches the bound candidate highest in
\* the order wink > double-blink > long-blink > head-turn, and that callback
\* only; outside the cooldown (and re-armed, for the candidates below the
\* wink) a frame with bound candidates does dispatch.
C19_HighestBoundCandidateDispatched ==
    (probe.helper = "SelectTrigger" /\ ProbeBoundPresent # {})
    => LET top == Highest(ProbeBoundPresent)
           callback == Bound(probe.input.config, top)
       IN /\ probe.calls # <<>>
             => probe.calls = <<callback>> /\ probe.result.triggerReason = top
          /\ (~probe.input.inCooldown /\ (Priority(top) = 1 \/ probe.input.rearmReady))
             => probe.calls = <<callback>>

\* a completed wink bound to one direction and a head turn bound to the
\* other on the same frame: the wink's callback is the one dispatched
C19_WinkOverHeadTurn ==
    /\ probe.helper = "SelectTrigger"
    /\ probe.input.winkTriggered = "wink_left"
    /\ probe.input.headTurnState = "right"
    /\ probe.input.config.triggerNext = "head_right"
    /\ probe.input.config.triggerPrev = "wink_left"
    /\ probe.input.rearmReady
    /\ probe.calls = <<"prev">>

ProbeFrameDone == probe.helper = "processFrame" /\ probe.result.outcome = "done"

\* the classification of the frame processFrame was applied to
ProbeObs == probe.result.obs[1]

C24_BlinkOpensOnlySynchronized ==
    ProbeFrameDone
    => /\ (probe.input.det.blinkState = Null /\ probe.result.det.blinkState # Null)
          => /\ ProbeObs.leftClosed /\ ProbeObs.rightClosed
             /\ probe.result.det.leftClosedSince # Null
             /\ probe.result.det.rightClosedSince # Null
             /\ Abs(probe.result.det.leftClosedSince
                    - probe.result.det.rightClosedSince) <= blinkSyncMs
       /\ (/\ ProbeObs.leftClosed /\ ProbeObs.rightClosed
           /\ Abs(probe.input.det.leftClosedSince
                  - probe.input.det.rightClosedSince) > blinkSyncMs)
          => /\ probe.result.det.blinkState = Null
             /\ probe.result.det.leftClosedSince = probe.input.det.leftClosedSince
             /\ probe.result.det.rightClosedSince = probe.input.det.rightClosedSince

\* a BlinkEvent opened on a frame of a synchronized closure
C24_BlinkOpened ==
    /\ ProbeFrameDone
    /\ probe.input.det.blinkState = Null
    /\ probe.input.det.leftClosedSince = probe.input.det.rightClosedSince
    /\ probe.result.det.blinkState = ProbeObs.now

\* the wink readings of the frame (the labels are mirrored)
ProbeLeftWinkReading == ProbeObs.rightClosed /\ ProbeObs.leftOpen /\ ProbeObs.asymmetric

ProbeRightWinkReading == ProbeObs.leftClosed /\ ProbeObs.rightOpen /\ ProbeObs.asymmetric

\* the frame is a synchronized blink
ProbeBothClosed ==
    /\ ProbeObs.leftClosed /\ ProbeObs.rightClosed
    /\ probe.result.det.leftClosedSince # Null /\ probe.result.det.rightClosedSince # Null
    /\ Abs(probe.result.det.leftClosedSince - probe.result.det.rightClosedSince)
          <= blinkSyncMs

\* the wink state was entered on the frame
ProbeWinkEntered ==
    /\ probe.result.det.winkState \in {"left_winking", "right_winking"}
    /\ probe.result.det.winkState # probe.input.det.winkState

\* C25: no frame is both a left-wink and a right-wink reading; a frame that
\* is a synchronized blink is no wink reading and does not enter the wink
\* state; no BlinkEvent is open after a frame that entered the wink state.
C25_BlinkAndWinkExclusive ==
    ProbeFrameDone
    => /\ ~(ProbeLeftWinkReading /\ ProbeRightWinkReading)
       /\ ProbeBothClosed
          => ~ProbeLeftWinkReading /\ ~ProbeRightWinkReading /\ ~ProbeWinkEntered
       /\ ProbeWinkEntered
          => /\ probe.result.det.blinkState = Null
             /\ ProbeLeftWinkReading \/ ProbeRightWinkReading

\* the left wink entered on the frame one eye reopened from a blink
C25_WinkEnteredFromBlink ==
    /\ ProbeFrameDone
    /\ probe.input.det.blinkState # Null
    /\ probe.input.det.winkState = "none"
    /\ probe.result.det.winkState = "left_winking"
    /\ probe.result.det.blinkState = Null

\* the step is a frame that processFrame ran to its end
FrameDoneStep == processed' = processed + 1 /\ last'.outcome = "done"

\* the frame of the step dispatched a trigger for the gesture
DispatchedFor(gesture) == \E i \in DOMAIN last'.calls : last'.calls[i].reason = gesture

\* C26: over a frame the head-turn state enters left or right only from
\* center; it enters triggered_right (triggered_left) only from right (left),
\* which a frame may have entered from center just before, and only when the
\* frame dispatches the head-turn trigger; it leaves left, right and the
\* triggered states otherwise only to center, on a frame whose yaw delta is
\* inside the return-to-center band.
C26_HeadTurnTransitions ==
    [][FrameDoneStep =>
         LET pre == det.headTurnState
             post == det'.headTurnState
             o == observed'[Len(observed')]
         IN /\ (post \in {"left", "right"} /\ post # pre) => pre = "center"
            /\ (post = "triggered_right" /\ post # pre)
               => /\ pre = "right" \/ (pre = "center" /\ o.yawDelta > 0 /\ ObservedTurned(o))
                  /\ DispatchedFor("head_right")
            /\ (post = "triggered_left" /\ post # pre)
               => /\ pre = "left" \/ (pre = "center" /\ o.yawDelta < 0 /\ ObservedTurned(o))
                  /\ DispatchedFor("head_left")
            /\ (pre # "center" /\ post # pre)
               => \/ post = "center" /\ ObservedCentered(o)
                  \/ pre = "right" /\ post = "triggered_right"
                  \/ pre = "left" /\ post = "triggered_left"]_vars

\* a head turn was dispatched and the head is back in the center band
C26_ReturnedAfterTrigger ==
    /\ isRunning
    /\ Len(dispatched) > 0
    /\ last.outcome = "done"
    /\ det.headTurnState = "center"
    /\ ObservedCentered(observed[Len(observed)])

\* the duration of the BlinkEvent that the frame ended
ProbeEndedBlinkMs == ProbeObs.now - probe.input.det.blinkState

C28_TooSoonFrameSkipped ==
    [][ticks' = ticks + 1 =>
         /\ (clock' - det.lastFrameTime) * targetFps < 1000
            => /\ det' = det /\ baseline' = baseline /\ noise' = noise
               /\ dispatched' = dispatched /\ last'.calls = <<>>
               /\ processed' = processed
         /\ processed' = processed + 1
            => (det'.lastFrameTime - det.lastFrameTime) * targetFps >= 1000]_vars

\* of the first frame and the callbacks after it all but one were processed
\* (one was skipped), the last of them just now
C28_SkippedThenProcessed ==
    /\ isRunning /\ ticks >= 2
    /\ processed = ticks
    /\ last.outcome \in {"done", "noface"}
    /\ det.lastFrameTime = clock

\* new is old moved toward smooth by baselineEmaPct percent of the distance
\* (rounded to the unit)
MovedTowardByEma(old, new, smooth) ==
    /\ Abs(100 * (new - old) - baselineEmaPct * (smooth - old)) <= 50
    /\ Abs(smooth - new) <= Abs(smooth - old)

\* C29: a frame callback changes the baseline only when the frame ran to its
\* end with both eyes classified open and the global cooldown over, and then
\* each baseline value moves toward the smoothed reading by the EMA rate;
\* every other callback (eye not open, cooldown, no face, skipped) leaves the
\* baseline as it is.
C29_BaselineAdaptsOnlyWhenOpen ==
    [][ticks' = ticks + 1 =>
         IF /\ last'.outcome = "done"
            /\ observed'[Len(observed')].leftOpen /\ observed'[Len(observed')].rightOpen
            /\ observed'[Len(observed')].now - det.lastTriggerTime >= config.cooldownMs
         THEN LET o == observed'[Len(observed')]
              IN /\ MovedTowardByEma(baseline.leftEar, baseline'.leftEar, o.smoothLeftEar)
                 /\ MovedTowardByEma(baseline.rightEar, baseline'.rightEar, o.smoothRightEar)
                 /\ MovedTowardByEma(baseline.yaw, baseline'.yaw, o.smoothYaw)
         ELSE baseline' = baseline]_vars

\* the first frame looked straight ahead and left the yaw baseline at 0; a
\* later callback moved it, and a frame inside a cooldown was processed
C29_BaselineMoved ==
    /\ isRunning
    /\ Len(observed) >= 3
    /\ observed[1].smoothYaw = 0 /\ observed[1].yawDelta = 0
    /\ baseline.yaw # 0
    /\ Len(dispatched) > 0
    /\ observed[Len(observed)].now > dispatched[1].now
    /\ observed[Len(observed)].now - dispatched[1].now < config.cooldownMs

\* the raw left-eye, right-eye and yaw values of the session's face frames,
\* in arrival order
ArrivedLeftEar == [i \in 1..Len(observed) |-> observed[i].leftEar]

ArrivedRightEar == [i \in 1..Len(observed) |-> observed[i].rightEar]

ArrivedYaw == [i \in 1..Len(observed) |-> observed[i].yaw]

\* C30: the ear histories never hold more than 7 values and the yaw history
\* never more than 5, and each holds the most recent values of the session's
\* face frames in arrival order.
C30_HistoriesBoundedAndRecent ==
    /\ Len(det.leftEarHistory) <= 7
    /\ Len(det.rightEarHistory) <= 7
    /\ Len(det.yawHistory) <= 5
    /\ det.leftEarHistory = LastN(ArrivedLeftEar, 7)
    /\ det.rightEarHistory = LastN(ArrivedRightEar, 7)
    /\ det.yawHistory = LastN(ArrivedYaw, 5)

\* more face frames than the ear histories hold, the first of them unlike the
\* last
C30_OldestEvicted ==
    /\ Len(observed) > earHistoryMax + 1
    /\ observed[1].yaw # observed[Len(observed)].yaw
    /\ observed[1].rightEar # observed[Len(observed)].rightEar
    /\ Len(det.leftEarHistory) = earHistoryMax
    /\ Len(det.yawHistory) = yawHistoryMax

\* C31: a frame leaves the same detection state and baseline and dispatches
\* the same callbacks whether or not a debug sink is configured.
C31_DebugSinkChangesNothing ==
    probe.helper = "debugElement"
    => /\ probe.debugging.det = probe.result.det
       /\ probe.debugging.baseline = probe.result.baseline
       /\ probe.debugging.calls = probe.result.calls
       /\ probe.debugging.outcome = probe.result.outcome

\* a frame that dispatched a trigger and wrote a debug snapshot
C31_SnapshotOfTrigger ==
    /\ probe.helper = "debugElement"
    /\ probe.result.debug = <<>>
    /\ Len(probe.debugging.debug) = 1
    /\ probe.debugging.debug[1].faceDetected
    /\ probe.debugging.debug[1].triggered # "none"
    /\ Len(probe.debugging.calls) = 1

\* the observation of the frame that dispatched dispatched[k]
ObservedAtDispatch(k) ==
    CHOOSE i \in 1..Len(observed) : observed[i].now = dispatched[k].now

\* C32: a head_right (head_left) trigger is dispatched only on a frame whose
\* yaw delta from the baseline exceeds the turn threshold to the right (left).
C32_HeadTriggerOnlyWhileTurned ==
    \A k \in 1..Len(dispatched) :
        LET threshold == (headTurnDeg * YawScale * SensScale) \div config.sensitivity
            delta == observed[ObservedAtDispatch(k)].yawDelta
        IN /\ dispatched[k].reason = "head_right" => delta > threshold
           /\ dispatched[k].reason = "head_left" => delta < -threshold

\* how long the eyes had been observed closed when the frame before this one
\* was processed, in the BlinkEvent that was open
ProbeObservedClosedMs ==
    DateNow(probe.input.det.lastFrameTime) - probe.input.det.blinkState

C34_RestPoseIsNoOppositeTurn ==
    \A k \in 1..Len(dispatched) :
        /\ dispatched[k].reason = "head_left"
              => observed[ObservedAtDispatch(k)].smoothYaw < calculateYaw(FaceOpen)
        /\ dispatched[k].reason = "head_right"
              => observed[ObservedAtDispatch(k)].smoothYaw > calculateYaw(FaceOpen)

\* C35: the baseline values (leftEar, rightEar, yaw) are finite numbers in
\* every reachable state, also after a degenerate frame.
C35_BaselineIsFinite ==
    /\ baseline.leftEar \notin {NaN, Infinity}
    /\ baseline.rightEar \notin {NaN, Infinity}
    /\ baseline.yaw \notin {NaN, Infinity}

====
